---- MODULE Spec2Model ----
(***************************************************************************)
(* A model of panid (src/panid/panid.py): the conversion-string parser     *)
(* Conversion.from_string, the file cache CachedData, the merge engine     *)
(* panid_convert and the pipeline driver panid.                            *)
(*                                                                         *)
(* Four specifications share the module, one per component:                *)
(*   SpecCache   concurrent runs of CachedData.data on one location        *)
(*   SpecParse   Conversion.from_string on bounded token strings           *)
(*   SpecConvert one call of panid_convert on bounded tables               *)
(*   SpecDriver  the loop of panid over an ordered list of conversions     *)
(* The variables of the components a specification does not run stay at    *)
(* their idle values.                                                      *)
(***************************************************************************)
EXTENDS Integers, Sequences, FiniteSets, TLC

\* ------------------------------------------------------------------ bounds
NRuns == 2
NChunks == 2
MaxTime == 3
MaxTimeout == 2

VARIABLES
  \* CachedData and the file system under its location
  now,        \* time.time()
  timeout,    \* self._timeout
  path,       \* the inode self._location names, NoFile when absent
  files,      \* inode -> [data, mtime]
  nextIno,    \* next inode number to allocate
  pc,         \* run -> position inside CachedData.data
  fd,         \* run -> inode of the stream opened for writing
  off,        \* run -> offset of that stream, in chunks
  obs,        \* run -> what is_timed_out observed
  invoked,    \* run -> whether self._saver was called
  before,     \* run -> the location as it was when the rebuild began
  alone,      \* run -> no other run held or touched the files in the rebuild
  loaded,     \* run -> what self._loader returned
  err,        \* run -> the exception that left data, "" when none
  \* Conversion.from_string
  raw,        \* the conversion string, a sequence of tokens
  ppc,        \* position inside from_string
  res,        \* deconstructor.match(raw)
  tried,      \* the local variables the try block bound, and its exception
  logged,     \* what log.error received
  result,     \* what from_string returned or raised
  \* panid_convert
  input,      \* the working table passed in
  conversion, \* the Conversion applied
  id_table,   \* the reference table
  cpc,        \* position of the call
  merged,     \* what panid_convert returned or raised
  \* panid, the pipeline driver
  conversions,    \* the conversion strings, in order
  input_data,     \* the table read from input_stream
  data,           \* cache.data, the reference table
  dpc,            \* position inside panid
  parsed,         \* the Conversions from_string returned
  idx,            \* i of the loop over the conversions
  converted_data, \* the working table
  history,        \* the working table after each applied conversion
  dlog,           \* the positions log.info announced
  derror,         \* the exception that ended the run
  output          \* what was written to output_stream

cacheVars == <<now, timeout, path, files, nextIno, pc, fd, off, obs, invoked,
               before, alone, loaded, err>>

parseVars == <<raw, ppc, res, tried, logged, result>>

convVars == <<input, conversion, id_table, cpc, merged>>

drvVars == <<conversions, input_data, data, dpc, parsed, idx, converted_data,
             history, dlog, derror, output>>

vars == <<cacheVars, parseVars, convVars, drvVars>>

notCache == <<parseVars, convVars, drvVars>>
notParse == <<cacheVars, convVars, drvVars>>
notConv == <<cacheVars, parseVars, drvVars>>
notDrv == <<cacheVars, parseVars, convVars>>


\* -------------------------------------------------------------- idle values
NoMatch == [matched |-> FALSE, g1 |-> <<>>, g2 |-> <<>>, g3 |-> "",
            g4 |-> <<>>, g5 |-> <<>>]
NothingTried == [bound |-> {}, exc |-> "", original |-> "",
                 original_type |-> "", symbol |-> "", to |-> "",
                 to_type |-> ""]
NoResult == [kind |-> "none"]

IdleParse ==
  /\ raw = <<>>
  /\ ppc = "idle"
  /\ res = NoMatch
  /\ tried = NothingTried
  /\ logged = <<>>
  /\ result = NoResult

NoTable == [cols |-> <<>>, rows |-> <<>>]
NoConversion == [kind |-> "none"]

IdleConv ==
  /\ input = NoTable
  /\ conversion = NoConversion
  /\ id_table = NoTable
  /\ cpc = "idle"
  /\ merged = NoResult

NoError == [exc |-> ""]

IdleDrv ==
  /\ conversions = <<>>
  /\ input_data = NoTable
  /\ data = NoTable
  /\ dpc = "idle"
  /\ parsed = <<>>
  /\ idx = 0
  /\ converted_data = NoTable
  /\ history = <<>>
  /\ dlog = <<>>
  /\ derror = NoError
  /\ output = NoTable

\* ------------------------------------------------------------ CachedData
Runs == 1..NRuns
NoFile == 0
Hole == 0            \* bytes never written (a gap left by a truncation)
Prior == NRuns + 1   \* the writer of an artifact that predates the runs
Inodes == 1..(NRuns + 1)

NoObs == [exists |-> FALSE, mtime |-> 0, now |-> 0]
Absent == [exists |-> FALSE, data |-> <<>>]

\* The table a whole successful rebuild by writer w leaves in the file.
WholeTable(w) == [i \in 1..NChunks |-> w]

IsWhole(content) ==
  /\ Len(content) = NChunks
  /\ content[1] # Hole
  /\ \A i \in 1..NChunks : content[i] = content[1]

Location == IF path = NoFile THEN Absent
            ELSE [exists |-> TRUE, data |-> files[path].data]

\* stream.write of one chunk at offset o by writer w
WriteAt(content, o, w) ==
  IF o < Len(content) THEN [content EXCEPT ![o + 1] = w]
  ELSE content \o [i \in 1..(o - Len(content)) |-> Hole] \o <<w>>

\* Run r changed the files: no other rebuild in progress is alone any more.
Disturb(r) == [q \in Runs |-> IF q = r THEN alone[q] ELSE FALSE]

\* is_timed_out: diff = lstat().st_mtime - time.time(); diff > self._timeout
TimedOut(exists, mtime, t, T) == (~exists) \/ (mtime - t > T)

IsTimedOut(r) ==
  /\ pc[r] = "start"
  /\ LET ex == path # NoFile
         mt == IF ex THEN files[path].mtime ELSE 0
     IN /\ obs' = [obs EXCEPT ![r] = [exists |-> ex, mtime |-> mt, now |-> now]]
        /\ pc' = [pc EXCEPT ![r] =
                    IF TimedOut(ex, mt, now, timeout) THEN "open_w" ELSE "open_r"]
  /\ UNCHANGED <<now, timeout, path, files, nextIno, fd, off, invoked, before,
                 alone, loaded, err>>
  /\ UNCHANGED notCache

\* self._location.open("w+"): create the file or truncate it, then call the saver
OpenWrite(r) ==
  /\ pc[r] = "open_w"
  /\ before' = [before EXCEPT ![r] = Location]
  /\ IF path = NoFile
       THEN /\ path' = nextIno
            /\ nextIno' = nextIno + 1
            /\ files' = [files EXCEPT ![nextIno] = [data |-> <<>>, mtime |-> now]]
            /\ fd' = [fd EXCEPT ![r] = nextIno]
       ELSE /\ files' = [files EXCEPT ![path] = [data |-> <<>>, mtime |-> now]]
            /\ fd' = [fd EXCEPT ![r] = path]
            /\ UNCHANGED <<path, nextIno>>
  /\ off' = [off EXCEPT ![r] = 0]
  /\ invoked' = [invoked EXCEPT ![r] = TRUE]
  /\ alone' = [q \in Runs |->
                 q = r /\ \A o \in Runs \ {r} : pc[o] # "saving"]
  /\ pc' = [pc EXCEPT ![r] = "saving"]
  /\ UNCHANGED <<now, timeout, obs, loaded, err>>
  /\ UNCHANGED notCache

\* the saver writes the next chunk of the table to its stream
SaverWrite(r) ==
  /\ pc[r] = "saving"
  /\ off[r] < NChunks
  /\ files' = [files EXCEPT ![fd[r]] =
                 [data |-> WriteAt(files[fd[r]].data, off[r], r), mtime |-> now]]
  /\ off' = [off EXCEPT ![r] = off[r] + 1]
  /\ alone' = Disturb(r)
  /\ UNCHANGED <<now, timeout, path, nextIno, pc, fd, obs, invoked, before,
                 loaded, err>>
  /\ UNCHANGED notCache

\* the saver returns and the with block closes the stream
SaverReturn(r) ==
  /\ pc[r] = "saving"
  /\ off[r] = NChunks
  /\ pc' = [pc EXCEPT ![r] = "open_r"]
  /\ UNCHANGED <<now, timeout, path, files, nextIno, fd, off, obs, invoked,
                 before, alone, loaded, err>>
  /\ UNCHANGED notCache

\* the saver raises: os.remove(self._location), then raise e
SaverRaise(r) ==
  /\ pc[r] = "saving"
  /\ IF path = NoFile
       THEN /\ err' = [err EXCEPT ![r] = "FileNotFoundError"]
            /\ UNCHANGED <<path, alone>>
       ELSE /\ path' = NoFile
            /\ err' = [err EXCEPT ![r] = "SaverError"]
            /\ alone' = Disturb(r)
  /\ pc' = [pc EXCEPT ![r] = "failed"]
  /\ UNCHANGED <<now, timeout, files, nextIno, fd, off, obs, invoked, before,
                 loaded>>
  /\ UNCHANGED notCache

\* self._location.open("r") and self._loader(stream) (pd.read_csv)
Load(r) ==
  /\ pc[r] = "open_r"
  /\ IF path = NoFile
       THEN /\ err' = [err EXCEPT ![r] = "FileNotFoundError"]
            /\ pc' = [pc EXCEPT ![r] = "failed"]
            /\ UNCHANGED loaded
       ELSE IF files[path].data = <<>>
         THEN /\ err' = [err EXCEPT ![r] = "EmptyDataError"]
              /\ pc' = [pc EXCEPT ![r] = "failed"]
              /\ UNCHANGED loaded
         ELSE /\ loaded' = [loaded EXCEPT ![r] = files[path].data]
              /\ pc' = [pc EXCEPT ![r] = "done"]
              /\ UNCHANGED err
  /\ UNCHANGED <<now, timeout, path, files, nextIno, fd, off, obs, invoked,
                 before, alone>>
  /\ UNCHANGED notCache

\* the clock advances
Tick ==
  /\ now < MaxTime
  /\ now' = now + 1
  /\ UNCHANGED <<timeout, path, files, nextIno, pc, fd, off, obs, invoked,
                 before, alone, loaded, err>>
  /\ UNCHANGED notCache

NoFiles == [i \in Inodes |-> [data |-> <<>>, mtime |-> 0]]

IdleCache ==
  /\ now = 0
  /\ timeout = 0
  /\ path = NoFile
  /\ files = NoFiles
  /\ nextIno = 1
  /\ pc = [r \in Runs |-> "idle"]
  /\ fd = [r \in Runs |-> NoFile]
  /\ off = [r \in Runs |-> 0]
  /\ obs = [r \in Runs |-> NoObs]
  /\ invoked = [r \in Runs |-> FALSE]
  /\ before = [r \in Runs |-> Absent]
  /\ alone = [r \in Runs |-> FALSE]
  /\ loaded = [r \in Runs |-> <<>>]
  /\ err = [r \in Runs |-> ""]

InitCache ==
  /\ now = 0
  /\ timeout \in 1..MaxTimeout
  /\ \/ /\ path = NoFile
        /\ files = NoFiles
        /\ nextIno = 1
     \/ /\ path = 1
        /\ files = [NoFiles EXCEPT ![1] = [data |-> WholeTable(Prior), mtime |-> 0]]
        /\ nextIno = 2
  /\ pc = [r \in Runs |-> "start"]
  /\ fd = [r \in Runs |-> NoFile]
  /\ off = [r \in Runs |-> 0]
  /\ obs = [r \in Runs |-> NoObs]
  /\ invoked = [r \in Runs |-> FALSE]
  /\ before = [r \in Runs |-> Absent]
  /\ alone = [r \in Runs |-> FALSE]
  /\ loaded = [r \in Runs |-> <<>>]
  /\ err = [r \in Runs |-> ""]
  /\ IdleParse
  /\ IdleConv
  /\ IdleDrv

NextCache ==
  \/ \E r \in Runs : IsTimedOut(r)
  \/ \E r \in Runs : OpenWrite(r)
  \/ \E r \in Runs : SaverWrite(r)
  \/ \E r \in Runs : SaverReturn(r)
  \/ \E r \in Runs : SaverRaise(r)
  \/ \E r \in Runs : Load(r)
  \/ Tick

SpecCache == InitCache /\ [][NextCache]_vars

\* ------------------------------------------------- claims on CachedData
Stale(o) == (~o.exists) \/ (o.now - o.mtime > timeout)

\* C1: data calls the saver exactly when the artifact is absent or its
\* last-modified time is older than now - timeout (t - m > T); a file that
\* exists with t - m <= T is loaded without calling the saver.
C1_RebuildIffStale ==
  \A r \in Runs :
    pc[r] \in {"saving", "open_r", "done", "failed"} =>
      (invoked[r] <=> Stale(obs[r]))

\* C2: when the saver raises, the failure propagates and the location is left
\* as it was before the rebuild attempt (a previous valid artifact unchanged,
\* an absent one still absent, never a truncated or partial file), no other
\* run rebuilding or having touched the files meanwhile.
C2_FailedRebuildRestores ==
  \A r \in Runs :
    (pc[r] = "failed" /\ err[r] = "SaverError" /\ alone[r]) =>
      /\ ~before[r].exists => Location = Absent
      /\ (before[r].exists /\ IsWhole(before[r].data)) => Location = before[r]
      /\ Location.exists => IsWhole(Location.data)

\* C3: with concurrent runs, every run that returns a table returns one whole
\* table written by a single rebuild (or the previous artifact), and no run
\* fails because another run is rebuilding or removed the file.
C3_ConcurrentRunsConsistent ==
  \A r \in Runs :
    /\ pc[r] = "done" => IsWhole(loaded[r])
    /\ pc[r] = "failed" => err[r] = "SaverError"

\* ------------------------------------------------ Conversion.from_string
\* A conversion string is a sequence of tokens: the delimiters ":", "+", ">"
\* and "?" are tokens of their own, every other token is a run of characters
\* holding none of them (and no line break).  Text gives the string a run of
\* tokens spells.
RECURSIVE Text(_)
Text(g) == IF g = <<>> THEN "" ELSE g[1] \o Text(Tail(g))

\* class IdType(StrEnum): auto() gives each member its lower-cased name
IdType == {"ensg_version", "ensg", "enst_version", "enst", "ncbi_gene_id",
           "refseq_rna_id", "hgnc_id", "hgnc_symbol"}

\* class Symbol(Enum)
Symbol == {"+", ">"}

\* IdType(value) succeeds
IsIdType(g) == Text(g) \in IdType

\* Every way to read s as g1 ":" g2 symbol g4 ":" g5 with no group empty:
\* <<i, j, k>> are the positions of the three delimiters.
AllSplits(s) ==
  {t \in (1..Len(s)) \X (1..Len(s)) \X (1..Len(s)) :
     /\ t[1] >= 2 /\ s[t[1]] = ":"
     /\ t[2] >= t[1] + 2 /\ s[t[2]] \in Symbol
     /\ t[3] >= t[2] + 2 /\ s[t[3]] = ":"
     /\ t[3] < Len(s)}

Groups(s, t) ==
  [matched |-> TRUE,
   g1 |-> SubSeq(s, 1, t[1] - 1),
   g2 |-> SubSeq(s, t[1] + 1, t[2] - 1),
   g3 |-> s[t[2]],
   g4 |-> SubSeq(s, t[2] + 1, t[3] - 1),
   g5 |-> SubSeq(s, t[3] + 1, Len(s))]

\* a is tried before b by the backtracking of the lazy groups (.+?)
TriedFirst(a, b) ==
  \/ a[1] < b[1]
  \/ a[1] = b[1] /\ a[2] < b[2]
  \/ a[1] = b[1] /\ a[2] = b[2] /\ a[3] <= b[3]

\* re.compile(r"(.+?):(.+?)(\+|>)(.+?):(.+?)$").match(raw): the first split the
\* lazy groups reach; the last group runs to the end of the string.
Deconstructor(s) ==
  IF AllSplits(s) = {} THEN NoMatch
  ELSE Groups(s, CHOOSE a \in AllSplits(s) :
                   \A b \in AllSplits(s) : TriedFirst(a, b))

\* The try block: the assignments run in order until one raises.
TryBlock(m) ==
  IF ~m.matched
    THEN [NothingTried EXCEPT !.exc = "AttributeError"]
  ELSE IF ~IsIdType(m.g2)
    THEN [NothingTried EXCEPT !.bound = {"original"}, !.original = Text(m.g1),
                              !.exc = "ValueError"]
  ELSE IF ~IsIdType(m.g5)
    THEN [NothingTried EXCEPT
            !.bound = {"original", "original_type", "symbol", "to"},
            !.original = Text(m.g1), !.original_type = Text(m.g2),
            !.symbol = m.g3, !.to = Text(m.g4), !.exc = "ValueError"]
  ELSE [bound |-> {"original", "original_type", "symbol", "to", "to_type"},
        exc |-> "", original |-> Text(m.g1), original_type |-> Text(m.g2),
        symbol |-> m.g3, to |-> Text(m.g4), to_type |-> Text(m.g5)]

MakeConversion(t) ==
  [kind |-> "Conversion", original |-> t.original,
   original_type |-> t.original_type, to |-> t.to, to_type |-> t.to_type,
   additive |-> (t.symbol = "+")]

\* As if the five locals were initialised before the try block.
ReturnConversionDefaults(t) == MakeConversion(t)

\* return Conversion(original=original, ...): a local the try block did not
\* bind raises UnboundLocalError
ReturnConversion(t) ==
  IF {"original", "original_type", "symbol", "to", "to_type"} \subseteq t.bound
    THEN MakeConversion(t)
    ELSE [kind |-> "raise", exc |-> "UnboundLocalError"]

FromString(s) == ReturnConversion(TryBlock(Deconstructor(s)))

Match ==
  /\ ppc = "start"
  /\ res' = Deconstructor(raw)
  /\ ppc' = "matched"
  /\ UNCHANGED <<raw, tried, logged, result>>
  /\ UNCHANGED notParse

Try ==
  /\ ppc = "matched"
  /\ tried' = TryBlock(res)
  /\ logged' = IF tried'.exc = "" THEN logged
               ELSE Append(logged, <<"Invalid input conversion string", tried'.exc>>)
  /\ ppc' = "tried"
  /\ UNCHANGED <<raw, res, result>>
  /\ UNCHANGED notParse

Return ==
  /\ ppc = "tried"
  /\ result' = ReturnConversion(tried)
  /\ ppc' = "done"
  /\ UNCHANGED <<raw, res, tried, logged>>
  /\ UNCHANGED notParse

SeqsUpTo(S, n) == UNION {[1..k -> S] : k \in 0..n}

MaxColLen == 2
ColTokens == {"gene", ":", "+"}
PlainCols == {<<"gene">>, <<"papayalama", " ", "wow!">>}
TypeTokens == {<<"ensg">>, <<"hgnc_symbol">>, <<"banana">>}
Suffixes == {<<>>, <<"?", "inner">>, <<"?", "outer">>}

RawStrings ==
  {c1 \o d1 \o t1 \o sy \o c2 \o d2 \o t2 \o su :
     c1 \in SeqsUpTo(ColTokens, MaxColLen), d1 \in {<<":">>, <<>>},
     t1 \in TypeTokens, sy \in {<<"+">>, <<">">>, <<>>},
     c2 \in PlainCols \cup {<<>>}, d2 \in {<<":">>, <<>>},
     t2 \in TypeTokens, su \in Suffixes}

InitParse ==
  /\ raw \in RawStrings
  /\ ppc = "start"
  /\ res = NoMatch
  /\ tried = NothingTried
  /\ logged = <<>>
  /\ result = NoResult
  /\ IdleCache
  /\ IdleConv
  /\ IdleDrv

NextParse == Match \/ Try \/ Return

SpecParse == InitParse /\ [][NextParse]_vars

\* ------------------------------------- claims on Conversion.from_string
\* No reading of s as g1 ":" g2 symbol g4 ":" g5 names two recognized types:
\* a delimiter is missing, or a type token is no IdType.
Malformed(s) ==
  \A t \in AllSplits(s) :
    ~(IsIdType(Groups(s, t).g2) /\ IsIdType(Groups(s, t).g5))

\* C4: for every string with a missing delimiter or an unrecognized source or
\* target type token, from_string reports the failure and raises; it never
\* returns a Conversion, default or partly filled.
C4_MalformedNeverReturns ==
  (ppc = "done" /\ Malformed(raw)) =>
    (result.kind = "raise" /\ logged # <<>>)

\* from_string has run on a string whose target type token is unrecognized,
\* after the try block bound the four locals before it.
C4_Witness ==
  /\ ppc = "done"
  /\ Malformed(raw)
  /\ tried.bound = {"original", "original_type", "symbol", "to"}
  /\ result.kind = "raise"

\* C5: an otherwise valid string with the suffix "?inner", "?outer" or none
\* yields a Conversion whose target type is the token before the "?", whose
\* other fields are the parts of the string, and whose merge mode is INNER for
\* "?inner" (the left join every Conversion gets is the OUTER mode).
C5_MergeModeSuffix ==
  \A c1 \in PlainCols, c2 \in PlainCols, t1 \in IdType, t2 \in IdType,
     sy \in Symbol, su \in Suffixes :
    (ppc = "done" /\ raw = c1 \o <<":", t1, sy>> \o c2 \o <<":", t2>> \o su) =>
      /\ result.kind = "Conversion"
      /\ result.original = Text(c1)
      /\ result.original_type = t1
      /\ result.to = Text(c2)
      /\ result.to_type = t2
      /\ result.additive = (sy = "+")
      /\ su = <<"?", "inner">> =>
           ("merge_mode" \in DOMAIN result /\ result.merge_mode = "inner")

\* ---------------------------------------------------------- panid_convert
\* A table is [cols, rows]: the column labels in order (labels may repeat, as
\* in a DataFrame) and the rows in order, each a sequence of cells aligned
\* with cols.  NA is the missing value (NaN).
NA == "<NA>"

Labels(t) == {t.cols[i] : i \in 1..Len(t.cols)}
ColIdx(t, name) == {i \in 1..Len(t.cols) : t.cols[i] = name}
TheIdx(t, name) == CHOOSE i \in ColIdx(t, name) : TRUE

\* the subsequence of s at the indices in K, in order
Pick(s, K) ==
  LET F[i \in 0..Len(s)] ==
        IF i = 0 THEN <<>>
        ELSE IF i \in K THEN Append(F[i - 1], s[i]) ELSE F[i - 1]
  IN F[Len(s)]

\* the concatenation of the sequences in ss
Flatten(ss) ==
  LET F[i \in 0..Len(ss)] == IF i = 0 THEN <<>> ELSE F[i - 1] \o ss[i]
  IN F[Len(ss)]

\* id_table[[a, b]]
Select(t, names) ==
  [cols |-> names,
   rows |-> [r \in 1..Len(t.rows) |->
               [k \in 1..Len(names) |-> t.rows[r][TheIdx(t, names[k])]]]]

\* DataFrame.dropna(axis=0, subset=name)
DropNa(t, name) ==
  [t EXCEPT !.rows =
     Pick(t.rows, {r \in 1..Len(t.rows) :
                     \A i \in ColIdx(t, name) : t.rows[r][i] # NA})]

\* DataFrame.rename(columns={from: to})
Rename(t, from, to) ==
  [t EXCEPT !.cols =
     [i \in 1..Len(t.cols) |-> IF t.cols[i] = from THEN to ELSE t.cols[i]]]

\* DataFrame.drop_duplicates(): the first of equal rows stays (NaN equals NaN)
DropDuplicates(t) ==
  [t EXCEPT !.rows =
     Pick(t.rows, {r \in 1..Len(t.rows) :
                     \A q \in 1..(r - 1) : t.rows[q] # t.rows[r]})]

\* DataFrame.drop(columns=[name])
DropColumn(t, name) ==
  LET keep == Pick([i \in 1..Len(t.cols) |-> i],
                   {i \in 1..Len(t.cols) : t.cols[i] # name})
  IN [cols |-> [k \in 1..Len(keep) |-> t.cols[keep[k]]],
      rows |-> [r \in 1..Len(t.rows) |->
                  [k \in 1..Len(keep) |-> t.rows[r][keep[k]]]]]

Raise(exc) == [kind |-> "raise", exc |-> exc]
Table(t) == [kind |-> "table", cols |-> t.cols, rows |-> t.rows]

\* the join of left and right on every label they share; how = "left" keeps a
\* left row no right row matches, with NA in the columns right adds
Join(left, right, how) ==
  LET common == Labels(left) \cap Labels(right)
      extra == Pick([i \in 1..Len(right.cols) |-> i],
                    {i \in 1..Len(right.cols) : right.cols[i] \notin common})
      Matches(l) ==
        Pick(right.rows,
             {q \in 1..Len(right.rows) : \A c \in common :
                left.rows[l][TheIdx(left, c)] = right.rows[q][TheIdx(right, c)]})
      Out(l) ==
        LET m == Matches(l)
        IN IF m = <<>>
             THEN IF how = "left"
                    THEN <<left.rows[l] \o [k \in 1..Len(extra) |-> NA]>>
                    ELSE <<>>
             ELSE [q \in 1..Len(m) |->
                     left.rows[l] \o [k \in 1..Len(extra) |-> m[q][extra[k]]]]
  IN IF common = {} THEN Raise("MergeError")
     ELSE IF \E c \in common :
               Cardinality(ColIdx(left, c)) > 1 \/ Cardinality(ColIdx(right, c)) > 1
       THEN Raise("MergeError")
     ELSE Table([cols |-> left.cols \o [k \in 1..Len(extra) |-> right.cols[extra[k]]],
                 rows |-> Flatten([l \in 1..Len(left.rows) |-> Out(l)])])

\* As if the merge were called with how = "inner".
MergeInner(left, right) == Join(left, right, "inner")

\* input.merge(selection, how = "left"): no on=, so pandas joins on all the
\* labels the two frames share
Merge(left, right) == Join(left, right, "left")

\* the selection of the reference table: lines 279-291
Selection(conv, ref) ==
  DropDuplicates(
    Rename(DropNa(Select(ref, <<conv.to_type, conv.original_type>>),
                  conv.to_type),
           conv.original_type, conv.original))

panid_convert(inp, conv, ref) ==
  LET m == Merge(inp, Selection(conv, ref))
  IN IF m.kind = "raise" THEN m
     ELSE LET d == DropDuplicates(m)
              k == IF conv.additive THEN d ELSE DropColumn(d, conv.original)
          IN Table(Rename(k, conv.to_type, conv.to))

Convert ==
  /\ cpc = "start"
  /\ merged' = panid_convert(input, conversion, id_table)
  /\ cpc' = "done"
  /\ UNCHANGED <<input, conversion, id_table>>
  /\ UNCHANGED notConv

\* ---- bounded inputs of panid_convert
MaxRows == 2

\* cells a column of the working table may hold, by its label
Cells(label) ==
  CASE label = "gene" -> {"s1", NA}
    [] label = "ensg" -> {"s1", NA}
    [] label = "hgnc_symbol" -> {"t1", NA}
    [] OTHER -> {"x", "y"}

\* the column layouts of the working table; the first column is the source
Layouts == {<<"gene">>, <<"gene", "other_data">>, <<"gene", "hgnc_symbol">>,
            <<"hgnc_symbol", "other_data">>}

RowsOf(cols) == {r \in [1..Len(cols) -> {"s1", "t1", "x", "y", NA}] :
                   \A i \in 1..Len(cols) : r[i] \in Cells(cols[i])}

\* the rows the reference table may hold: <<ensg, hgnc_symbol>>
RefRows == ({"s1", "s2"} \X {"t1", "t2", NA}) \cup {<<NA, "t1">>}

RECURSIVE SetToSeq(_)
SetToSeq(S) ==
  IF S = {} THEN <<>>
  ELSE LET x == CHOOSE y \in S : TRUE IN <<x>> \o SetToSeq(S \ {x})

InitConvert ==
  /\ \E cols \in Layouts :
       /\ input \in {[cols |-> cols, rows |-> rs] :
                       rs \in SeqsUpTo(RowsOf(cols), MaxRows)}
       /\ conversion \in {[kind |-> "Conversion", original |-> cols[1],
                           original_type |-> "ensg", to |-> t,
                           to_type |-> "hgnc_symbol", additive |-> a] :
                            t \in {"sym", "other_data"}, a \in BOOLEAN}
  /\ id_table \in {[cols |-> <<"ensg", "hgnc_symbol">>, rows |-> SetToSeq(S)] :
                     S \in SUBSET RefRows}
  /\ cpc = "start"
  /\ merged = NoResult
  /\ IdleCache
  /\ IdleParse
  /\ IdleDrv

NextConvert == Convert

SpecConvert == InitConvert /\ [][NextConvert]_vars

\* ------------------------------------------------ claims on panid_convert
DistinctRows(t) == {t.rows[i] : i \in 1..Len(t.rows)}
Count(cols, name) == Cardinality({i \in 1..Len(cols) : cols[i] = name})

\* C6 as stated: a conversion step (the code's only mode, the left join) never
\* returns fewer rows than it was given, exact-duplicate input rows included.
C6_OuterNeverShrinks ==
  (cpc = "done" /\ merged.kind = "table") =>
    Len(merged.rows) >= Len(input.rows)

\* C6 as amended: a conversion step never returns fewer rows than the table
\* passed in has distinct rows.
C6_OuterKeepsDistinctRows ==
  (cpc = "done" /\ merged.kind = "table") =>
    Len(merged.rows) >= Cardinality(DistinctRows(input))

\* a step has returned a table for an input holding exact-duplicate rows, and
\* the table is shorter than the input
C6_Witness ==
  /\ cpc = "done"
  /\ merged.kind = "table"
  /\ Cardinality(DistinctRows(input)) < Len(input.rows)
  /\ Len(merged.rows) < Len(input.rows)

\* the distinct non-missing target ids the reference table pairs with s
TargetsOf(s) ==
  {id_table.rows[i][TheIdx(id_table, conversion.to_type)] :
     i \in {j \in 1..Len(id_table.rows) :
              /\ id_table.rows[j][TheIdx(id_table, conversion.original_type)] = s
              /\ id_table.rows[j][TheIdx(id_table, conversion.to_type)] # NA}}

\* C7: a working table of one row whose source column holds s, with s paired
\* with N >= 1 distinct non-missing target ids, converts to exactly N rows,
\* one per target id, whatever other columns the row carries.
C7_FanOut ==
  (cpc = "done" /\ merged.kind = "table" /\ Len(input.rows) = 1) =>
    LET s == input.rows[1][TheIdx(input, conversion.original)]
    IN (s # NA /\ TargetsOf(s) # {}) =>
         /\ Len(merged.rows) = Cardinality(TargetsOf(s))
         /\ {merged.rows[i][Len(merged.cols)] : i \in 1..Len(merged.rows)}
              = TargetsOf(s)

\* the columns the claim expects: the input's, without the source column when
\* it is replaced, plus one named conversion.to
ExpectedCols ==
  (IF conversion.additive THEN input.cols
   ELSE Pick(input.cols, {i \in 1..Len(input.cols) :
                            input.cols[i] # conversion.original}))
  \o <<conversion.to>>

\* C10: the columns after a step are the input's columns plus one named
\* conversion.to, minus conversion.original when the source is replaced, also
\* when an existing column is named like the target type's reference column.
C10_ColumnSet ==
  (cpc = "done" /\ merged.kind = "table") =>
    \A name \in Labels(merged) \cup {ExpectedCols[i] : i \in 1..Len(ExpectedCols)} :
      Count(merged.cols, name) = Count(ExpectedCols, name)

\* ------------------------------------------------------------------ panid
\* data = cache.data: the table the artifact holds, or the exception
\* CachedData.data raised
LoadReference ==
  /\ dpc = "start"
  /\ \/ /\ data' = [cols |-> <<"ensg_version", "ensg", "hgnc_symbol", "refseq_rna_id">>,
                    rows |-> << <<"ENSG00000000003.16", "ENSG00000000003", "TSPAN6", "NM_003270">>,
                                <<"ENSG00000000003.16", "ENSG00000000003", "TSPAN6", "NM_001278740">>,
                                <<"ENSG00000000003.16", "ENSG00000000003", "TSPAN6", "NM_001278741">>,
                                <<"ENSG00000000003.16", "ENSG00000000003", "TSPAN6", "NM_001278742">>,
                                <<"ENSG00000000003.16", "ENSG00000000003", "TSPAN6", "NM_001278743">>,
                                <<"ENSG00000001036.14", "ENSG00000001036", "FUCA2", "NM_032020">>,
                                <<"ENSG00000001084.13", "ENSG00000001084", "GCLC", "NM_001498">>,
                                <<"ENSG00000001084.13", "ENSG00000001084", "GCLC", "NM_001197115">>,
                                <<"ENSG00000001461.17", "ENSG00000001461", NA, NA>> >>]
        /\ dpc' = "read"
        /\ UNCHANGED derror
     \/ /\ derror' = [exc |-> "CacheError"]
        /\ dpc' = "failed"
        /\ UNCHANGED data
  /\ UNCHANGED <<conversions, input_data, parsed, idx, converted_data, history,
                 dlog, output>>
  /\ UNCHANGED notDrv

\* input_data = pd.read_csv(input_stream);
\* conversions = [Conversion.from_string(x) for x in conversions]
ReadAndParse ==
  /\ dpc = "read"
  /\ IF \E k \in 1..Len(conversions) : FromString(conversions[k]).kind = "raise"
       THEN /\ derror' = [exc |-> "UnboundLocalError"]
            /\ dpc' = "failed"
            /\ UNCHANGED <<parsed, converted_data>>
       ELSE /\ parsed' = [k \in 1..Len(conversions) |-> FromString(conversions[k])]
            /\ converted_data' = input_data
            /\ dpc' = "loop"
            /\ UNCHANGED derror
  /\ UNCHANGED <<conversions, input_data, data, idx, history, dlog, output>>
  /\ UNCHANGED notDrv

\* the ValueError of line 323: conv.original and input_data.columns
MissingColumn(conv, inp) ==
  [exc |-> "ValueError", column |-> conv.original, columns |-> inp.cols]

\* one pass of the loop: log, check the source column, panid_convert
Step ==
  /\ dpc = "loop"
  /\ idx < Len(parsed)
  /\ dlog' = Append(dlog, idx + 1)
  /\ LET conv == parsed[idx + 1]
     IN IF conv.original \notin Labels(converted_data)
          THEN /\ derror' = MissingColumn(conv, input_data)
               /\ dpc' = "failed"
               /\ UNCHANGED <<idx, converted_data, history>>
          ELSE LET m == panid_convert(converted_data, conv, data)
               IN IF m.kind = "raise"
                    THEN /\ derror' = [exc |-> m.exc]
                         /\ dpc' = "failed"
                         /\ UNCHANGED <<idx, converted_data, history>>
                    ELSE /\ converted_data' = [cols |-> m.cols, rows |-> m.rows]
                         /\ history' = Append(history, converted_data')
                         /\ idx' = idx + 1
                         /\ UNCHANGED <<dpc, derror>>
  /\ UNCHANGED <<conversions, input_data, data, parsed, output>>
  /\ UNCHANGED notDrv

\* converted_data.drop_duplicates().to_csv(output_stream, index=False)
Finish ==
  /\ dpc = "loop"
  /\ idx = Len(parsed)
  /\ output' = DropDuplicates(converted_data)
  /\ dpc' = "done"
  /\ UNCHANGED <<conversions, input_data, data, parsed, idx, converted_data,
                 history, dlog, derror>>
  /\ UNCHANGED notDrv

\* ---- bounded inputs of panid
MaxSpecs == 3

\* the conversion strings of tests/test_integration.py, and variants
DriverStrings ==
  {<<"ensembl_gene_id", ":", "ensg_version", ">", "ensembl", ":", "ensg">>,
   <<"ensembl", ":", "ensg", "+", "gene_name", ":", "hgnc_symbol">>,
   <<"ensembl", ":", "ensg", "+", "refseq_id", ":", "refseq_rna_id">>,
   <<"ensembl_gene_id", ":", "ensg_version", "+", "ensembl", ":", "ensg">>,
   <<"ensembl", ":", "ensg", ">", "gene_name", ":", "hgnc_symbol", "?", "inner">>,
   <<"ensembl_gene_id", ":", "ensg_version", ">", "gene_name", ":", "hgnc_symbol">>}

\* ORIGINAL of tests/test_integration.py, and a table with a duplicate row and
\* an id the reference table does not hold
DriverInputs ==
  {[cols |-> <<"ensembl_gene_id", "other_data">>,
    rows |-> << <<"ENSG00000000003.16", "restructured">>,
                <<"ENSG00000001036.14", "banana">>,
                <<"ENSG00000001084.13", "papaya">> >>],
   [cols |-> <<"ensembl_gene_id", "other_data">>,
    rows |-> << <<"ENSG00000001461.17", "durian">>,
                <<"ENSG00000001461.17", "durian">>,
                <<"ENSG00000009999.1", "mango">> >>]}

InitDriver ==
  /\ conversions \in UNION {[1..n -> DriverStrings] : n \in 1..MaxSpecs}
  /\ input_data \in DriverInputs
  /\ data = NoTable
  /\ dpc = "start"
  /\ parsed = <<>>
  /\ idx = 0
  /\ converted_data = NoTable
  /\ history = <<>>
  /\ dlog = <<>>
  /\ derror = NoError
  /\ output = NoTable
  /\ IdleCache
  /\ IdleParse
  /\ IdleConv

NextDriver == LoadReference \/ ReadAndParse \/ Step \/ Finish

SpecDriver == InitDriver /\ [][NextDriver]_vars

\* --------------------------------------------------------- claims on panid
\* C8: when the conversion at position i names a source column the current
\* working table lacks, the run fails before applying it or any later one,
\* and the error reports position i and the columns of the current working
\* table (the position announced by the loop's log line counts as reported).
C8_MissingColumnReport ==
  (dpc = "failed" /\ derror.exc = "ValueError") =>
    /\ Len(history) = idx
    /\ dlog # <<>> /\ dlog[Len(dlog)] = idx + 1
    /\ derror.column \notin Labels(converted_data)
    /\ derror.columns = converted_data.cols

\* the conversion string asks for merge mode INNER and is otherwise valid
IsInnerRequest(s) ==
  /\ Len(s) > 2
  /\ SubSeq(s, Len(s) - 1, Len(s)) = <<"?", "inner">>
  /\ ~Malformed(SubSeq(s, 1, Len(s) - 2))

SourceValues(t, label) ==
  {t.rows[r][c] : r \in 1..Len(t.rows), c \in ColIdx(t, label)}

\* C9: a conversion requested with merge mode INNER is applied, and the table
\* after it holds no row with a missing value in the new target column and no
\* source-column value the table before it did not hold.
C9_InnerDropsUnmatched ==
  \A k \in 1..Len(conversions) :
    IsInnerRequest(conversions[k]) =>
      /\ ~(dpc = "failed" /\ derror.exc = "UnboundLocalError")
      /\ k <= Len(history) =>
           LET after == history[k]
               prior == IF k = 1 THEN input_data ELSE history[k - 1]
               src == parsed[k].original
           IN /\ \A r \in 1..Len(after.rows) : after.rows[r][Len(after.cols)] # NA
              /\ SourceValues(after, src) \subseteq SourceValues(prior, src)

\* ------------------------------------------------ the whole development
Init == InitCache \/ InitParse \/ InitConvert \/ InitDriver

Next == NextCache \/ NextParse \/ NextConvert \/ NextDriver

Spec == Init /\ [][Next]_vars

====
